---- MODULE Spec2Model ----
(***************************************************************************)
(* The speech turn-taking coordinator of talktocursor (the MCP server      *)
(* entry point): the FIFO queue of speak requests drained by               *)
(* processTTSQueue, the speak and listen tool handlers, and the two signal *)
(* files they write; the configuration it starts from (config.ts) and the  *)
(* settings server that shows and saves that configuration.                *)
(*                                                                         *)
(* One action of the model is one run-to-completion step of the Node.js    *)
(* event loop: a tool handler runs until its first await, and the drain    *)
(* loop resumes after an awaited promise settles and runs until its next   *)
(* await or its return.                                                    *)
(***************************************************************************)
EXTENDS Integers, Sequences, FiniteSets, TLC

\* Bounds of the model.
MaxRequests == 3      \* speak calls in one behaviour
MaxClock == 1         \* the millisecond clock reads 0..MaxClock

\* The texts a caller passes to speak (a text is a sequence of characters):
\* a whitespace-only text and a text with a visible character.
Texts == { <<" ">>, <<"a">> }

\* API keys: of 4 characters (all of them asterisks), of 8, of 9, and of 12
\* with asterisks in the middle.
Key4 == << "*", "*", "*", "*" >>
Key8 == << "s", "k", "_", "1", "2", "3", "4", "5" >>
Key9 == << "s", "k", "_", "1", "2", "3", "4", "5", "6" >>
Key12 == << "s", "k", "_", "1", "*", "*", "*", "*", "6", "7", "8", "9" >>

\* The failure causes (error.message) of the three calls inside the try block.
GatewayError == "gateway error"
PlaybackError == "playback error"
WriteError == "EACCES"

VARIABLES
    config,             \* the snapshot taken by getEffectiveConfig() at startup
    ttsQueue,           \* the queue of items {text, resolve, reject}
    isProcessingQueue,  \* the draining guard
    loops,              \* the activations of processTTSQueue past its guard,
                        \* each suspended at an await
    promises,           \* per request: its text and the calls made to its
                        \* resolve / reject functions
    convertCalls,       \* the calls made to elevenlabs.textToSpeech.convert
    convertOptions,     \* the voice id and the options passed in these calls
    playCalls,          \* the calls made to play
    completionWrites,   \* the items tts-complete.json was written for
    completionFile,     \* content of tts-complete.json
    listenFile,         \* content of listen-signal.json
    listenResult,       \* the result the listen handler returned last
    clock,              \* the latest time new Date() has stamped a record with
    env,                \* process.env of the MCP server
    configFile,         \* content of config.json
    process,            \* how far main() of the MCP server has come
    response            \* the last response of the settings server

vars == << config, ttsQueue, isProcessingQueue, loops, promises, convertCalls,
           convertOptions, playCalls, completionWrites, completionFile, listenFile, listenResult, clock,
           env, configFile, process, response >>

hostVars == << env, configFile, process, response >>

signalVars == << completionFile, listenFile, listenResult, clock >>

queueVars == << ttsQueue, isProcessingQueue, loops, promises, convertCalls,
                convertOptions, playCalls, completionWrites >>

Absent == [exists |-> FALSE]

----------------------------------------------------------------------------
\* Result payloads.

\* A success value without the quotation marks around the text.
SpokenResultUnquoted(text) ==
    [ text |-> <<"Spoken: ">> \o text, isError |-> FALSE ]

SpokenResult(text) ==
    [ text |-> <<"Spoken: \"">> \o text \o <<"\"">>, isError |-> FALSE ]

FailedResult(errorMessage) ==
    [ text |-> <<"Failed to speak: ", errorMessage>>, isError |-> TRUE ]

DisabledResult == [ text |-> <<"Auto-listen is disabled">>, isError |-> FALSE ]

ListeningResult == [ text |-> <<"Listening for user input...">>, isError |-> FALSE ]

ListenFailedResult(errorMessage) ==
    [ text |-> <<"Failed to start listening: ", errorMessage>>, isError |-> TRUE ]

CompletionSignal(now) == [ exists |-> TRUE, timestamp |-> now, completed |-> TRUE ]

ListenSignal(now) == [ exists |-> TRUE, timestamp |-> now, triggered |-> TRUE ]

\* What the listen handler has returned before its first call.
NoResult == [ text |-> <<>>, isError |-> FALSE ]

\* The times new Date() can read when a record is stamped: the clock does
\* not run backwards.
Now == clock..MaxClock

----------------------------------------------------------------------------
\* The configuration (config.ts).  A string that is sliced (an API key) is a
\* sequence of characters; numbers are written in hundredths (1.0 is 100).

DEFAULT_VOICE_SETTINGS ==
    [ speed |-> 100, stability |-> 50, similarityBoost |-> 75, style |-> 0 ]

DEFAULT_AUTO_SUBMIT ==
    [ enabled |-> FALSE, silenceDelay |-> 300, minTextLength |-> 1500,
      targetApp |-> "Cursor" ]

DEFAULT_WISPR_LOOP ==
    [ enabled |-> FALSE, ttsDelay |-> 800, silenceThreshold |-> 2,
      silenceDuration |-> 200, wisprHotkey |-> "shift+ctrl",
      manualTriggerHotkey |-> "ctrl+shift+l" ]

DEFAULT_CONFIG ==
    [ apiKey |-> <<>>,
      voiceId |-> "21m00Tcm4TlvDq8ikWAM",
      model |-> "eleven_flash_v2_5",
      voiceSettings |-> DEFAULT_VOICE_SETTINGS,
      autoSubmit |-> DEFAULT_AUTO_SUBMIT,
      wisprLoop |-> DEFAULT_WISPR_LOOP,
      autoListen |-> TRUE ]

\* The object {}.
EmptyObject == << >>

\* The object { ...a, ...b }.
Spread(a, b) ==
    [ k \in DOMAIN a \cup DOMAIN b |-> IF k \in DOMAIN b THEN b[k] ELSE a[k] ]

\* obj[k] || {}
ObjectOrEmpty(obj, k) == IF k \in DOMAIN obj THEN obj[k] ELSE EmptyObject

\* config.json: missing, not parseable, or the JSON text of an object.
NoFile == [ kind |-> "absent" ]
CorruptFile == [ kind |-> "corrupt" ]

\* JSON.stringify(value, null, 2) written to config.json
Stringify(value) == [ kind |-> "json", value |-> value ]

\* existsSync(CONFIG_PATH) and JSON.parse(readFileSync(...)) does not throw
Readable(file) == file.kind = "json"

\* JSON.parse of the content of a readable file
Parse(file) == file.value

loadConfig(file) ==
    IF Readable(file)
    THEN LET parsed == Parse(file)
         IN  Spread(Spread(DEFAULT_CONFIG, parsed),
                    [ voiceSettings |->
                          Spread(DEFAULT_VOICE_SETTINGS,
                                 ObjectOrEmpty(parsed, "voiceSettings")),
                      autoSubmit |->
                          Spread(DEFAULT_AUTO_SUBMIT,
                                 ObjectOrEmpty(parsed, "autoSubmit")),
                      wisprLoop |->
                          Spread(DEFAULT_WISPR_LOOP,
                                 ObjectOrEmpty(parsed, "wisprLoop")),
                      autoListen |->
                          IF "autoListen" \in DOMAIN parsed
                          THEN parsed.autoListen
                          ELSE DEFAULT_CONFIG.autoListen ])
    ELSE DEFAULT_CONFIG

\* saveConfig(update) when config.json is file: the object written and
\* returned.
saveConfig(file, update) == Spread(loadConfig(file), update)

\* process.env[name] || fallback, for a variable holding an API key
EnvKeyOr(environment, name, fallback) ==
    IF name \in DOMAIN environment /\ environment[name] # <<>>
    THEN environment[name]
    ELSE fallback

\* process.env[name] || fallback, for a variable holding a name
EnvNameOr(environment, name, fallback) ==
    IF name \in DOMAIN environment /\ environment[name] # ""
    THEN environment[name]
    ELSE fallback

\* An effective configuration in which the file's values win over the
\* environment's.
getEffectiveConfigFileFirst(environment, file) ==
    LET fileConfig == loadConfig(file)
    IN  [ apiKey |-> IF fileConfig.apiKey # <<>>
                     THEN fileConfig.apiKey
                     ELSE EnvKeyOr(environment, "ELEVENLABS_API_KEY", <<>>),
          voiceId |-> IF fileConfig.voiceId # ""
                      THEN fileConfig.voiceId
                      ELSE EnvNameOr(environment, "ELEVENLABS_VOICE_ID", ""),
          model |-> IF fileConfig.model # "" THEN fileConfig.model
                                             ELSE DEFAULT_CONFIG.model,
          voiceSettings |-> fileConfig.voiceSettings,
          autoSubmit |-> fileConfig.autoSubmit,
          wisprLoop |-> fileConfig.wisprLoop,
          autoListen |-> fileConfig.autoListen ]

getEffectiveConfig(environment, file) ==
    LET fileConfig == loadConfig(file)
    IN  [ apiKey |-> EnvKeyOr(environment, "ELEVENLABS_API_KEY",
                              fileConfig.apiKey),
          voiceId |-> EnvNameOr(environment, "ELEVENLABS_VOICE_ID",
                                fileConfig.voiceId),
          model |-> IF fileConfig.model # "" THEN fileConfig.model
                                             ELSE DEFAULT_CONFIG.model,
          voiceSettings |-> fileConfig.voiceSettings,
          autoSubmit |-> fileConfig.autoSubmit,
          wisprLoop |-> fileConfig.wisprLoop,
          autoListen |-> fileConfig.autoListen ]

\* A main that starts without looking at the API key.
MissingApiKeyIgnored(c) == FALSE

\* !config.apiKey
MissingApiKey(c) == c.apiKey = <<>>

----------------------------------------------------------------------------
\* The settings server.

Stars == << "*", "*", "*", "*" >>

\* A mask that shows every character of a key of 8 characters.
maskKeyBelowEight(key) ==
    IF Len(key) < 8
    THEN Stars
    ELSE SubSeq(key, 1, 4) \o Stars \o SubSeq(key, Len(key) - 3, Len(key))

maskKey(key) ==
    IF Len(key) <= 8
    THEN Stars
    ELSE SubSeq(key, 1, 4) \o Stars \o SubSeq(key, Len(key) - 3, Len(key))

\* The configuration as the two /api/config routes show it.
Shown(c) ==
    [ apiKey |-> IF c.apiKey # <<>> THEN maskKey(c.apiKey) ELSE <<>>,
      apiKeySet |-> c.apiKey # <<>>,
      voiceId |-> c.voiceId,
      model |-> c.model,
      voiceSettings |-> c.voiceSettings,
      autoSubmit |-> c.autoSubmit,
      wisprLoop |-> c.wisprLoop,
      autoListen |-> c.autoListen ]

\* The updates POST /api/config takes from the request body.
Updates(body) ==
    [ k \in { f \in DOMAIN body \cap DOMAIN DEFAULT_CONFIG :
                 f = "apiKey" => body[f] # <<>> } |-> body[k] ]

NoResponse == [ route |-> "none" ]

----------------------------------------------------------------------------
\* The drain loop.

RemoveAt(s, i) == SubSeq(s, 1, i - 1) \o SubSeq(s, i + 1, Len(s))

\* A guard that tests the queue only.
ShouldReturnIgnoringFlag(processing, q) == Len(q) = 0

\* The guard of processTTSQueue: return without doing anything.
ShouldReturn(processing, q) == processing \/ Len(q) = 0

\* const item = ttsQueue.pop()
ShiftNewest(q) == [ item |-> q[Len(q)], rest |-> SubSeq(q, 1, Len(q) - 1) ]

\* const item = ttsQueue[0]
ShiftKeepsHead(q) == [ item |-> Head(q), rest |-> q ]

\* const item = ttsQueue.shift()
Shift(q) == [ item |-> Head(q), rest |-> Tail(q) ]

\* The test of the while loop.
WhileTest(q) == Len(q) > 0

\* Arguments of convert read from the configuration file at the time of the
\* call.
ConvertOptionsFromFile(item) ==
    LET current == getEffectiveConfig(env, configFile)
    IN  [ voiceId |-> current.voiceId,
          text |-> item.text,
          modelId |-> current.model,
          voiceSettings |->
              [ speed |-> current.voiceSettings.speed,
                stability |-> current.voiceSettings.stability,
                similarityBoost |-> current.voiceSettings.similarityBoost,
                style |-> current.voiceSettings.style ] ]

\* The arguments of elevenlabs.textToSpeech.convert for an item: the voice id
\* taken from config when the module was loaded, and the options object.
ConvertOptions(item) ==
    [ voiceId |-> config.voiceId,
      text |-> item.text,
      modelId |-> config.model,
      voiceSettings |->
          [ speed |-> config.voiceSettings.speed,
            stability |-> config.voiceSettings.stability,
            similarityBoost |-> config.voiceSettings.similarityBoost,
            style |-> config.voiceSettings.style ] ]

\* One iteration of the while loop up to its first await: the head is taken
\* off the queue q and the gateway is called for it; activation i (a new one
\* when i = Len(loops) + 1) is suspended at the await.
StartIteration(i, q) ==
    LET s == Shift(q)
        frame == [ pc |-> "convert", item |-> s.item ]
    IN  /\ ttsQueue' = s.rest
        /\ loops' = IF i > Len(loops) THEN Append(loops, frame)
                                      ELSE [loops EXCEPT ![i] = frame]
        /\ convertCalls' = Append(convertCalls, s.item)
        /\ convertOptions' = Append(convertOptions, ConvertOptions(s.item))

\* An end of iteration that returns after one item whatever is queued (an if
\* in the place of the while).
EndIterationOnce(i) ==
    /\ isProcessingQueue' = FALSE
    /\ loops' = RemoveAt(loops, i)
    /\ UNCHANGED << ttsQueue, convertCalls, convertOptions >>

\* An end of iteration whose exit leaves the guard set.
EndIterationKeepsGuard(i) ==
    IF WhileTest(ttsQueue)
    THEN /\ StartIteration(i, ttsQueue)
         /\ UNCHANGED isProcessingQueue
    ELSE /\ loops' = RemoveAt(loops, i)
         /\ UNCHANGED << isProcessingQueue, ttsQueue, convertCalls, convertOptions >>

\* The end of an iteration of activation i: the while test, and either the
\* next iteration or the reset of the guard and the return.
EndIteration(i) ==
    IF WhileTest(ttsQueue)
    THEN /\ StartIteration(i, ttsQueue)
         /\ UNCHANGED isProcessingQueue
    ELSE /\ isProcessingQueue' = FALSE
         /\ loops' = RemoveAt(loops, i)
         /\ UNCHANGED << ttsQueue, convertCalls, convertOptions >>

\* processTTSQueue() called when the queue is q.
processTTSQueue(q) ==
    IF ShouldReturn(isProcessingQueue, q)
    THEN /\ ttsQueue' = q
         /\ UNCHANGED << isProcessingQueue, loops, convertCalls, convertOptions >>
    ELSE IF WhileTest(q)
         THEN /\ isProcessingQueue' = TRUE
              /\ StartIteration(Len(loops) + 1, q)
         ELSE /\ isProcessingQueue' = FALSE
              /\ ttsQueue' = q
              /\ UNCHANGED << loops, convertCalls, convertOptions >>

\* queueTTS(text): a new promise, its item pushed, processTTSQueue called.
queueTTS(text) ==
    LET id == Len(promises) + 1
    IN  /\ promises' = Append(promises, [ text |-> text, calls |-> <<>> ])
        /\ processTTSQueue(Append(ttsQueue, [ text |-> text, id |-> id ]))

\* item.resolve(value) / item.reject(value)
Settle(id, fn, value) ==
    promises' = [promises EXCEPT ![id].calls =
                    Append(@, [ fn |-> fn, value |-> value ])]

\* A catch block that rejects the item and leaves the loop through its exit.
CatchAbortsLoop(i, errorMessage) ==
    /\ Settle(loops[i].item.id, "reject", FailedResult(errorMessage))
    /\ isProcessingQueue' = FALSE
    /\ loops' = RemoveAt(loops, i)
    /\ UNCHANGED << ttsQueue, convertCalls, convertOptions >>

\* A catch block that rejects the item and throws the error again.
CatchRethrows(i, errorMessage) ==
    /\ Settle(loops[i].item.id, "reject", FailedResult(errorMessage))
    /\ loops' = RemoveAt(loops, i)
    /\ UNCHANGED << isProcessingQueue, ttsQueue, convertCalls, convertOptions >>

\* The catch block of the drain loop, entered by activation i.
Catch(i, errorMessage) ==
    /\ Settle(loops[i].item.id, "reject", FailedResult(errorMessage))
    /\ EndIteration(i)

\* The speak tool handler, return await queueTTS(text), for request id: it
\* returns the value its promise is resolved with and throws the value its
\* promise is rejected with.
SpeakHandlerOutcome(id) ==
    LET call == promises[id].calls[1]
    IN  [ kind |-> IF call.fn = "resolve" THEN "return" ELSE "throw",
          value |-> call.value ]

----------------------------------------------------------------------------
\* Actions.

\* The environment and config.json the MCP server is started with: nothing
\* configured; the key in the environment only; the key in the file, with
\* auto-listen switched off; an empty key in both.
StartupCases ==
    << [ env |-> EmptyObject, file |-> NoFile ],
       [ env |-> [ ELEVENLABS_API_KEY |-> Key9 ], file |-> NoFile ],
       [ env |-> EmptyObject,
         file |-> Stringify([ apiKey |-> Key8, autoListen |-> FALSE ]) ],
       [ env |-> [ ELEVENLABS_API_KEY |-> <<>> ],
         file |-> Stringify([ apiKey |-> <<>> ]) ] >>

\* The transport is connected: tool requests reach the handlers.
Serving == process.phase = "serving"

Init ==
    /\ \E k \in DOMAIN StartupCases :
          /\ env = StartupCases[k].env
          /\ configFile = StartupCases[k].file
    /\ config = getEffectiveConfig(env, configFile)
    /\ process = [ phase |-> "starting" ]
    /\ response = NoResponse
    /\ ttsQueue = <<>>
    /\ isProcessingQueue = FALSE
    /\ loops = <<>>
    /\ promises = <<>>
    /\ convertCalls = <<>>
    /\ convertOptions = <<>>
    /\ playCalls = <<>>
    /\ completionWrites = <<>>
    /\ completionFile = Absent
    /\ listenFile = Absent
    /\ listenResult = NoResult
    /\ clock = 0

\* main(): without an API key the process exits with status 1 after its
\* diagnostic, otherwise the transport is connected.
Main ==
    /\ process.phase = "starting"
    /\ process' = IF MissingApiKey(config)
                  THEN [ phase |-> "exited", code |-> 1,
                         stderr |-> "[TTS] ERROR: No API key found!" ]
                  ELSE [ phase |-> "serving" ]
    /\ UNCHANGED << queueVars, signalVars, config, env, configFile, response >>

\* The speak tool handler.
Speak ==
    \E text \in Texts :
        /\ Serving
        /\ UNCHANGED hostVars
        /\ Len(promises) < MaxRequests
        /\ queueTTS(text)
        /\ UNCHANGED << playCalls, completionWrites, config, completionFile, listenFile,
                        listenResult, clock >>

\* The gateway call of activation i returns audio: play is called.
ConvertReturns ==
    \E i \in DOMAIN loops :
        /\ Serving
        /\ UNCHANGED hostVars
        /\ loops[i].pc = "convert"
        /\ loops' = [loops EXCEPT ![i].pc = "play"]
        /\ playCalls' = Append(playCalls, loops[i].item)
        /\ UNCHANGED << ttsQueue, isProcessingQueue, promises, convertCalls,
                        convertOptions, completionWrites, config, completionFile, listenFile,
                        listenResult, clock >>

\* The gateway call of activation i fails.
ConvertFails ==
    \E i \in DOMAIN loops :
        /\ Serving
        /\ UNCHANGED hostVars
        /\ loops[i].pc = "convert"
        /\ Catch(i, GatewayError)
        /\ UNCHANGED << playCalls, completionWrites, config, completionFile,
                        listenFile, listenResult, clock >>

\* Playback of activation i completes and the item is resolved without the
\* completion signal being written.
PlayReturnsWithoutSignal ==
    \E i \in DOMAIN loops :
        /\ Serving
        /\ UNCHANGED hostVars
        /\ loops[i].pc = "play"
        /\ Settle(loops[i].item.id, "resolve", SpokenResult(loops[i].item.text))
        /\ EndIteration(i)
        /\ UNCHANGED << playCalls, completionWrites, config, completionFile, listenFile,
                        listenResult, clock >>

\* Playback of activation i completes and the completion signal is written.
PlayReturns ==
    \E i \in DOMAIN loops :
        /\ Serving
        /\ UNCHANGED hostVars
        /\ loops[i].pc = "play"
        /\ clock' \in Now
        /\ completionFile' = CompletionSignal(clock')
        /\ completionWrites' = Append(completionWrites, loops[i].item)
        /\ Settle(loops[i].item.id, "resolve", SpokenResult(loops[i].item.text))
        /\ EndIteration(i)
        /\ UNCHANGED << playCalls, config, listenFile,
                        listenResult >>

\* Playback of activation i completes and writeFileSync throws (the time read
\* for the record is lost with it).
PlayReturnsWriteFails ==
    \E i \in DOMAIN loops :
        /\ Serving
        /\ UNCHANGED hostVars
        /\ loops[i].pc = "play"
        /\ Catch(i, WriteError)
        /\ UNCHANGED << playCalls, completionWrites, config, completionFile,
                        listenFile, listenResult, clock >>

\* A playback failure after which the completion signal is written all the
\* same.
PlayFailsWritesSignal ==
    \E i \in DOMAIN loops :
        /\ Serving
        /\ UNCHANGED hostVars
        /\ loops[i].pc = "play"
        /\ clock' \in Now
        /\ completionFile' = CompletionSignal(clock')
        /\ completionWrites' = Append(completionWrites, loops[i].item)
        /\ Catch(i, PlaybackError)
        /\ UNCHANGED << playCalls, config, listenFile, listenResult >>

\* Playback of activation i fails.
PlayFails ==
    \E i \in DOMAIN loops :
        /\ Serving
        /\ UNCHANGED hostVars
        /\ loops[i].pc = "play"
        /\ Catch(i, PlaybackError)
        /\ UNCHANGED << playCalls, completionWrites, config, completionFile,
                        listenFile, listenResult, clock >>

\* A listen handler that switches auto-listen on when it finds it off.
ListenDisabledTurnsOn ==
    /\ Serving
    /\ UNCHANGED hostVars
    /\ ~config.autoListen
    /\ listenResult' = DisabledResult
    /\ config' = [ config EXCEPT !.autoListen = TRUE ]
    /\ UNCHANGED << queueVars, completionFile, listenFile, clock >>

\* The listen tool handler with auto-listen disabled.
ListenDisabled ==
    /\ Serving
    /\ UNCHANGED hostVars
    /\ ~config.autoListen
    /\ listenResult' = DisabledResult
    /\ UNCHANGED << queueVars, config, completionFile, listenFile, clock >>

\* A listen handler that writes its signal only when no drain loop is running.
ListenWritesAfterDrain ==
    /\ Serving
    /\ UNCHANGED hostVars
    /\ config.autoListen
    /\ ~isProcessingQueue
    /\ clock' \in Now
    /\ listenFile' = ListenSignal(clock')
    /\ listenResult' = ListeningResult
    /\ UNCHANGED << queueVars, config, completionFile >>

\* A listen handler that writes its record to tts-complete.json.
ListenWritesCompletionFile ==
    /\ Serving
    /\ UNCHANGED hostVars
    /\ config.autoListen
    /\ clock' \in Now
    /\ completionFile' = ListenSignal(clock')
    /\ listenResult' = ListeningResult
    /\ UNCHANGED << queueVars, config, listenFile >>

\* The listen tool handler writes the listen signal.
ListenWrites ==
    /\ Serving
    /\ UNCHANGED hostVars
    /\ config.autoListen
    /\ clock' \in Now
    /\ listenFile' = ListenSignal(clock')
    /\ listenResult' = ListeningResult
    /\ UNCHANGED << queueVars, config, completionFile >>

\* The listen tool handler, writeFileSync throws (the time read for the
\* record is lost with it).
ListenWriteFails ==
    /\ Serving
    /\ UNCHANGED hostVars
    /\ config.autoListen
    /\ listenResult' = ListenFailedResult(WriteError)
    /\ UNCHANGED << queueVars, config, completionFile, listenFile, clock >>

Next ==
    \/ Main
    \/ Speak
    \/ ConvertReturns
    \/ ConvertFails
    \/ PlayReturns
    \/ PlayReturnsWriteFails
    \/ PlayFails
    \/ ListenDisabled
    \/ ListenWrites
    \/ ListenWriteFails

Spec == Init /\ [][Next]_vars

\* Every gateway call and every playback call eventually returns or fails.
LiveSpec ==
    /\ Spec
    /\ WF_vars(ConvertReturns \/ ConvertFails)
    /\ WF_vars(PlayReturns \/ PlayReturnsWriteFails \/ PlayFails)

----------------------------------------------------------------------------
\* The configuration file, the environment and the settings server.

\* The environments a process is started in: neither variable set; the key
\* set; both set to the empty string; both set.
EnvCases ==
    << EmptyObject,
       [ ELEVENLABS_API_KEY |-> Key9 ],
       [ ELEVENLABS_API_KEY |-> <<>>, ELEVENLABS_VOICE_ID |-> "" ],
       [ ELEVENLABS_API_KEY |-> Key9, ELEVENLABS_VOICE_ID |-> "envVoice" ] >>

\* The config.json files found at the start.
FileCases ==
    << NoFile,
       CorruptFile,
       Stringify(EmptyObject),
       Stringify([ apiKey |-> Key8, autoListen |-> FALSE ]),
       Stringify([ apiKey |-> Key12, voiceId |-> "fileVoice", model |-> "",
                   voiceSettings |-> [ speed |-> 120 ] ]) >>

\* The request bodies of POST /api/config.
Bodies ==
    << EmptyObject,
       [ apiKey |-> <<>>, voiceId |-> "postVoice" ],
       [ apiKey |-> Key4 ],
       [ apiKey |-> Key9, autoListen |-> FALSE ],
       [ model |-> "eleven_v3", voiceSettings |-> [ stability |-> 30 ] ] >>

ConfigInit ==
    /\ \E e \in DOMAIN EnvCases : env = EnvCases[e]
    /\ \E f \in DOMAIN FileCases : configFile = FileCases[f]
    /\ config = getEffectiveConfig(env, configFile)
    /\ process = [ phase |-> "starting" ]
    /\ response = NoResponse
    /\ ttsQueue = << >>
    /\ isProcessingQueue = FALSE
    /\ loops = << >>
    /\ promises = << >>
    /\ convertCalls = << >>
    /\ convertOptions = << >>
    /\ playCalls = << >>
    /\ completionWrites = << >>
    /\ completionFile = Absent
    /\ listenFile = Absent
    /\ listenResult = NoResult
    /\ clock = 0

\* The MCP server process is started again: the module computes its effective
\* configuration before main runs.
LoadEffectiveConfig ==
    /\ process.phase # "starting"
    /\ config' = getEffectiveConfig(env, configFile)
    /\ process' = [ phase |-> "starting" ]
    /\ UNCHANGED << queueVars, signalVars, env, configFile, response >>

\* GET /api/config
GetConfig ==
    /\ response' = [ route |-> "GET /api/config",
                     config |-> Shown(loadConfig(configFile)) ]
    /\ UNCHANGED << queueVars, signalVars, config, env, configFile, process >>

\* The handler of POST /api/config for a request body.
Post(body) ==
    LET saved == saveConfig(configFile, Updates(body))
    IN  /\ configFile' = Stringify(saved)
        /\ response' = [ route |-> "POST /api/config", success |-> TRUE,
                         config |-> Shown(saved) ]
        /\ UNCHANGED << queueVars, signalVars, config, env, process >>

\* POST /api/config
PostConfig == \E b \in DOMAIN Bodies : Post(Bodies[b])

ConfigNext ==
    \/ Main
    \/ LoadEffectiveConfig
    \/ GetConfig
    \/ PostConfig

ConfigSpec == ConfigInit /\ [][ConfigNext]_vars

----------------------------------------------------------------------------
\* The coordinator while the settings server saves settings.

\* The settings the settings page saves: another voice, model and voice
\* tuning.
SavedSettings ==
    [ voiceId |-> "postVoice", model |-> "eleven_v3",
      voiceSettings |-> [ speed |-> 120, stability |-> 30,
                          similarityBoost |-> 75, style |-> 0 ] ]

\* What the settings page posts: its form, with auto-listen switched off or on.
SettingsChanges ==
    << Spread(SavedSettings, [ autoListen |-> FALSE ]),
       Spread(SavedSettings, [ autoListen |-> TRUE ]) >>

\* POST /api/config from the settings page
PostSettings == \E b \in DOMAIN SettingsChanges : Post(SettingsChanges[b])

SnapshotNext ==
    \/ Next
    \/ PostSettings

SnapshotSpec == Init /\ [][SnapshotNext]_vars

----------------------------------------------------------------------------
\* Vocabulary of the properties.

Whitespace == { " " }

\* text.trim() is the empty string
IsBlank(text) == \A k \in DOMAIN text : text[k] \in Whitespace

Last(s) == s[Len(s)]

Occurrences(s, id) == Cardinality({ k \in DOMAIN s : s[k].id = id })

Attempted(id) == Occurrences(convertCalls, id) > 0

Queued(id) == Occurrences(ttsQueue, id) > 0

InFlight(id) == \E i \in DOMAIN loops : loops[i].item.id = id

Settled(id) == id \in DOMAIN promises /\ Len(promises[id].calls) > 0

Resolved(id) == Settled(id) /\ promises[id].calls[1].fn = "resolve"

Rejected(id) == Settled(id) /\ promises[id].calls[1].fn = "reject"

RejectedBecause(id, errorMessage) ==
    /\ Rejected(id)
    /\ promises[id].calls[1].value = FailedResult(errorMessage)

\* The step is a speak call.
SpeakStep == Len(promises') = Len(promises) + 1

\* The item built by the speak call of this step.
NewItem == [ text |-> Last(promises').text, id |-> Len(promises') ]

\* The step is a listen call.
ListenStep == ListenDisabled \/ ListenWrites \/ ListenWriteFails

----------------------------------------------------------------------------
\* C1: at most one request is in flight (being synthesized or played) and at
\* most one drain loop is active at any time; a speak call made while a loop
\* is running only appends its item to the queue and starts no second loop.
C1_SingleDrainLoop ==
    /\ [](Len(loops) <= 1)
    /\ [][ (isProcessingQueue /\ SpeakStep) =>
              /\ ttsQueue' = Append(ttsQueue, NewItem)
              /\ UNCHANGED << loops, isProcessingQueue, convertCalls, playCalls >>
         ]_vars

\* Two speak calls arrived while a request was being played.
C1_Witness ==
    /\ isProcessingQueue
    /\ Len(loops) = 1
    /\ loops[1].pc = "play"
    /\ Len(ttsQueue) >= 2

\* C2: requests are dequeued, synthesized and played in the order they were
\* submitted, and the synthesis of a request begins only after every request
\* before it has been settled (its playback completed or its attempt failed).
C2_FifoOrder ==
    /\ \A k \in DOMAIN convertCalls :
          /\ convertCalls[k] = [ text |-> promises[k].text, id |-> k ]
          /\ k < Len(convertCalls) => Settled(k)
    /\ \A j, k \in DOMAIN playCalls :
          j < k => playCalls[j].id < playCalls[k].id
    /\ \A k \in DOMAIN playCalls :
          playCalls[k] = convertCalls[playCalls[k].id]
    /\ \A j \in DOMAIN ttsQueue :
          ttsQueue[j] = [ text |-> promises[Len(convertCalls) + j].text,
                          id |-> Len(convertCalls) + j ]

\* Three requests were synthesized, the first two of them played.
C2_Witness ==
    /\ Len(convertCalls) >= 3
    /\ Len(playCalls) >= 2
    /\ Resolved(1)
    /\ Resolved(2)

\* C3: a failure of synthesis or playback for the item in flight settles that
\* item with an error and no other item, and the loop goes on with the head of
\* the queue.
C3_FailureIsolated ==
    [][ \A i \in DOMAIN loops :
          LET id == loops[i].item.id
              failure == \/ loops[i].pc = "convert" /\ ConvertFails
                         \/ loops[i].pc = "play" /\ PlayFails
              cause == IF loops[i].pc = "convert" THEN GatewayError
                                                  ELSE PlaybackError
          IN  failure =>
                /\ promises'[id].calls =
                      << [ fn |-> "reject", value |-> FailedResult(cause) ] >>
                /\ \A other \in DOMAIN promises \ {id} :
                      promises'[other] = promises[other]
                /\ ttsQueue # <<>> =>
                      /\ isProcessingQueue'
                      /\ loops' = << [ pc |-> "convert", item |-> Head(ttsQueue) ] >>
                      /\ ttsQueue' = Tail(ttsQueue)
                      /\ convertCalls' = Append(convertCalls, Head(ttsQueue))
      ]_vars

\* The first request failed in synthesis, the second in playback, and the
\* third, queued behind them, is being attempted.
C3_Witness ==
    /\ RejectedBecause(1, GatewayError)
    /\ RejectedBecause(2, PlaybackError)
    /\ InFlight(3)

\* C4: a request is attempted at most once and its handle called at most
\* once; it is in exactly one of the queue, the loop and the settled state,
\* so it is never retried or put back into the queue; when the loop has
\* returned, every request has been settled exactly once.
C4_AtMostOnce ==
    \A id \in DOMAIN promises :
        /\ Len(promises[id].calls) <= 1
        /\ Occurrences(convertCalls, id) <= 1
        /\ Occurrences(playCalls, id) <= 1
        /\ Occurrences(ttsQueue, id) <= 1
        /\ Cardinality({ i \in DOMAIN loops : loops[i].item.id = id }) <= 1
        /\ Queued(id) => ~Attempted(id) /\ ~InFlight(id) /\ ~Settled(id)
        /\ InFlight(id) => Attempted(id) /\ ~Settled(id)
        /\ Settled(id) => Attempted(id)
        /\ ~isProcessingQueue => Len(promises[id].calls) = 1

\* The loop has returned after a success and a failure.
C4_Witness ==
    /\ ~isProcessingQueue
    /\ \E a, b \in DOMAIN promises : Resolved(a) /\ Rejected(b)
    /\ \A id \in DOMAIN promises : Settled(id)

\* C5: when every gateway call and every playback call eventually returns or
\* fails, every request accepted by speak is eventually attempted and settled.
C5_EventuallySettled ==
    \A id \in 1..MaxRequests :
        (id \in DOMAIN promises) ~> (Attempted(id) /\ Settled(id))

\* A request that had to wait behind another one has been settled, and listen
\* was called meanwhile.
C5_Witness ==
    /\ Len(promises) >= 2
    /\ Settled(2)
    /\ listenResult # NoResult

\* C6: the guard is false at startup, is true only while an activation of the
\* loop is alive, is always reset again, and a speak call made when it is
\* false starts a loop that takes up the new request.
C6_GuardNeverStuck ==
    /\ ~isProcessingQueue
    /\ [](isProcessingQueue <=> Len(loops) > 0)
    /\ [](~isProcessingQueue => ttsQueue = <<>>)
    /\ isProcessingQueue ~> ~isProcessingQueue
    /\ [][ (~isProcessingQueue /\ SpeakStep) =>
              /\ isProcessingQueue'
              /\ loops' = << [ pc |-> "convert", item |-> NewItem ] >>
              /\ convertCalls' = Append(convertCalls, NewItem)
         ]_vars

\* The loop has returned and reset the guard after failures of each kind and
\* a success.
C6_Witness ==
    /\ ~isProcessingQueue
    /\ ttsQueue = <<>>
    /\ \E a, b, c \in DOMAIN promises :
          /\ Resolved(a)
          /\ RejectedBecause(b, GatewayError)
          /\ RejectedBecause(c, PlaybackError)

\* C7: a speak call with empty or whitespace-only text is rejected before
\* enqueue: its item never enters the queue, the gateway is never called for
\* it, and the queue and the guard are left as they were.
C7_BlankTextRejected ==
    /\ [](\A id \in DOMAIN promises :
            IsBlank(promises[id].text) =>
                ~Queued(id) /\ ~InFlight(id) /\ ~Attempted(id))
    /\ [][ (SpeakStep /\ IsBlank(NewItem.text)) =>
              UNCHANGED << ttsQueue, isProcessingQueue, loops, convertCalls >>
         ]_vars

\* C8: when the completion signal cannot be written after a successful
\* playback, the request is still resolved with the success value.
C8_SignalWriteFailureIgnored ==
    [][ \A i \in DOMAIN loops :
          (loops[i].pc = "play" /\ PlayReturnsWriteFails) =>
              promises'[loops[i].item.id].calls =
                  << [ fn |-> "resolve",
                       value |-> SpokenResult(loops[i].item.text) ] >>
      ]_vars

\* C9: when the listen signal cannot be written, the listen result is not
\* flagged as an error.
C9_ListenWriteFailureIgnored ==
    [][ ListenWriteFails => ~listenResult'.isError ]_vars

\* C10: with autoListen false every listen call returns the disabled result
\* and leaves the listen signal file alone; with autoListen true every listen
\* call writes one fresh record and returns the listening result.
C10_ListenGated ==
    [][ ListenStep =>
          IF config.autoListen
          THEN /\ listenFile' = ListenSignal(clock')
               /\ listenResult' = ListeningResult
          ELSE /\ listenFile' = listenFile
               /\ listenResult' = DisabledResult
      ]_vars

\* C11: listen can run in every state of the coordinator, whatever is in
\* flight or queued, and it leaves the queue, the request in flight, the guard,
\* the requests' handles and the playback-complete file as they are.
C11_ListenIndependent ==
    /\ [](Serving => IF config.autoListen THEN ENABLED ListenWrites
                                          ELSE ENABLED ListenDisabled)
    /\ [][ ListenStep => UNCHANGED << queueVars, completionFile >> ]_vars

\* A listen signal has been written while one request is in flight and
\* another one is waiting behind it.
C11_Witness ==
    /\ listenResult = ListeningResult
    /\ listenFile.exists
    /\ Len(loops) = 1
    /\ Len(ttsQueue) >= 1
    /\ ~completionFile.exists

\* C12: a request is resolved with success only by the step that ends its
\* playback, and that step has written a fresh playback-complete record; the
\* record is replaced only by a later successful utterance, so the file holds
\* a record whenever a request has been resolved.
C12_SignalBeforeResolve ==
    /\ [](\A id \in DOMAIN promises : Resolved(id) => completionFile.exists)
    /\ [][ \A id \in DOMAIN promises :
              (~Resolved(id) /\ Resolved(id)') =>
                  /\ \E i \in DOMAIN loops :
                        loops[i] = [ pc |-> "play",
                                     item |-> [ text |-> promises[id].text,
                                                id |-> id ] ]
                  /\ clock' >= clock
                  /\ completionFile' = [ exists |-> TRUE, timestamp |-> clock',
                                         completed |-> TRUE ]
         ]_vars
    /\ [][ completionFile' # completionFile =>
              \E id \in DOMAIN promises : ~Resolved(id) /\ Resolved(id)'
         ]_vars

\* Two requests have been resolved and the file holds the later record.
C12_Witness ==
    /\ Resolved(1)
    /\ Resolved(2)
    /\ completionFile.exists
    /\ completionFile.timestamp = MaxClock

\* C13: the timestamp written after a successful playback is strictly later
\* than the timestamp the playback-complete file held before.
C13_StrictlyLaterTimestamp ==
    [][ (completionFile.exists /\ PlayReturns) =>
            completionFile'.timestamp > completionFile.timestamp ]_vars

\* C14 as stated: the playback-complete file holds the record of the most
\* recent successful utterance and the listen-requested file the record of
\* the most recent listen call with autoListen enabled; each of the two
\* operations writes its own file only, and nothing else writes either file.
C14_MailboxOfLatestCall ==
    [][ /\ PlayReturns =>
              /\ completionFile' = CompletionSignal(clock')
              /\ listenFile' = listenFile
        /\ (config.autoListen /\ ListenStep) =>
              /\ listenFile' = ListenSignal(clock')
              /\ completionFile' = completionFile
        /\ ~(PlayReturns \/ (config.autoListen /\ ListenStep)) =>
              UNCHANGED << completionFile, listenFile >>
      ]_vars

\* C14 as amended: each file holds the record of the most recent call whose
\* write succeeded; each of the two operations replaces the whole content of
\* its own file and leaves the other file alone, and nothing else writes
\* either file.
C14_MailboxOfLatestWrite ==
    /\ [][ /\ PlayReturns =>
                 /\ completionFile' = [ exists |-> TRUE, timestamp |-> clock',
                                        completed |-> TRUE ]
                 /\ listenFile' = listenFile
           /\ ListenWrites =>
                 /\ listenFile' = [ exists |-> TRUE, timestamp |-> clock',
                                    triggered |-> TRUE ]
                 /\ completionFile' = completionFile
           /\ ~(PlayReturns \/ ListenWrites) =>
                 UNCHANGED << completionFile, listenFile >>
         ]_vars
    /\ [](completionFile.exists <=> \E id \in DOMAIN promises : Resolved(id))
    /\ [](listenFile.exists => config.autoListen)

\* Both files hold a record, the listen record being the later one, and the
\* last listen call since then failed to write.
C14_Witness ==
    /\ completionFile.exists
    /\ listenFile.exists
    /\ listenFile.timestamp > completionFile.timestamp
    /\ listenResult = ListenFailedResult(WriteError)

\* C16: the speak handler returns a result to its caller for every request:
\* one with the error flag and the failure cause when the request failed, one
\* without the error flag when it was spoken.
C16_StructuredResult ==
    \A id \in DOMAIN promises :
        Settled(id) =>
            LET outcome == SpeakHandlerOutcome(id)
            IN  /\ outcome.kind = "return"
                /\ Rejected(id) =>
                      /\ outcome.value.isError
                      /\ \E cause \in { GatewayError, PlaybackError, WriteError } :
                            outcome.value.text = <<"Failed to speak: ", cause>>
                /\ Resolved(id) => ~outcome.value.isError

\* C17: a request whose synthesis, playback and signal write succeed is
\* resolved with the text Spoken: "t", t being the text of that request.
C17_SpokenOwnText ==
    /\ [](\A id \in DOMAIN promises :
            Resolved(id) =>
                promises[id].calls[1].value =
                    [ text |-> <<"Spoken: \"">> \o promises[id].text \o <<"\"">>,
                      isError |-> FALSE ])
    /\ [][ \A id \in DOMAIN promises :
              ((\E i \in DOMAIN loops :
                    loops[i].pc = "play" /\ loops[i].item.id = id)
                 /\ PlayReturns) =>
                  Resolved(id)'
         ]_vars

\* Two requests with different texts have been resolved.
C17_Witness ==
    /\ Resolved(1)
    /\ Resolved(2)
    /\ promises[1].text # promises[2].text

\* C15: with an empty effective apiKey main exits with a non-zero status and a
\* diagnostic instead of connecting the transport, so no speak or listen
\* request is handled and the gateway is never called.
C15_RefusesWithoutKey ==
    /\ [](config.apiKey = <<>> =>
              /\ process.phase # "serving"
              /\ promises = << >>
              /\ convertCalls = << >>
              /\ listenResult = NoResult
              /\ listenFile = Absent)
    /\ [](process.phase = "exited" =>
              /\ process.code # 0
              /\ process.stderr # "")
    /\ [][ config.apiKey = <<>> /\ process.phase = "starting"
               => process'.phase = "exited" ]_vars

\* main has exited because neither the environment nor the file has a key.
C15_Witness ==
    /\ process.phase = "exited"
    /\ config.apiKey = <<>>

\* C18: no step of a speak or listen operation, successful or failed, changes
\* the effective configuration or the persisted configuration file.
C18_ConfigReadOnly ==
    [][ process.phase = "serving" => UNCHANGED << config, configFile >> ]_vars

\* One request was spoken, one failed, and listen has answered.
C18_Witness ==
    /\ \E id \in DOMAIN promises : Resolved(id)
    /\ \E id \in DOMAIN promises : Rejected(id)
    /\ listenResult # NoResult
    /\ config.autoListen

\* The effective configuration is the merge of the file as it is now with the
\* environment.
ConfigIsEffective ==
    LET file == loadConfig(configFile)
        Set(name, empty) == name \in DOMAIN env /\ env[name] # empty
    IN  /\ config.apiKey = IF Set("ELEVENLABS_API_KEY", <<>>)
                           THEN env.ELEVENLABS_API_KEY
                           ELSE file.apiKey
        /\ config.voiceId = IF Set("ELEVENLABS_VOICE_ID", "")
                            THEN env.ELEVENLABS_VOICE_ID
                            ELSE file.voiceId
        /\ config.model = IF file.model = "" THEN "eleven_flash_v2_5"
                                             ELSE file.model
        /\ config.voiceSettings = file.voiceSettings
        /\ config.autoSubmit = file.autoSubmit
        /\ config.wisprLoop = file.wisprLoop
        /\ config.autoListen = file.autoListen

\* C19: whenever the effective configuration is computed, apiKey and voiceId
\* are the environment's values when these are set and non-empty and the
\* file's otherwise, and every other field is the file's (with defaults).
C19_EffectiveConfig ==
    [][ process.phase # "starting" /\ process'.phase = "starting"
            => ConfigIsEffective' ]_vars

\* The process was started again after a key was saved to the file while the
\* environment holds another one.
C19_Witness ==
    /\ process.phase = "starting"
    /\ "ELEVENLABS_API_KEY" \in DOMAIN env
    /\ config.apiKey = env.ELEVENLABS_API_KEY
    /\ loadConfig(configFile).apiKey \notin { <<>>, config.apiKey }
    /\ response.route = "POST /api/config"

\* The apiKey field of the last response of the settings API and the key
\* stored when it was sent.
ResponseKey == response.config.apiKey
StoredKey == loadConfig(configFile).apiKey

\* C20 as stated: the apiKey field of a response is never the stored key.
C20_NeverInFull ==
    response.route # "none" /\ StoredKey # <<>> => ResponseKey # StoredKey

\* C20: the apiKey field of both responses is "" when no key is stored, "****"
\* for a stored key of 8 characters or fewer and otherwise its first 4
\* characters, "****" and its last 4 characters; it is the stored key itself
\* only for the key "****" and for a 12-character key whose characters 5 to 8
\* are "****".
C20_KeyMasked ==
    response.route # "none" =>
        LET key == StoredKey
            n == Len(key)
            masked == [ k \in 1..12 |-> IF k <= 4 THEN key[k]
                                        ELSE IF k <= 8 THEN "*"
                                        ELSE key[n - 12 + k] ]
        IN  /\ n = 0 => ResponseKey = <<>>
            /\ n \in 1..8 => ResponseKey = << "*", "*", "*", "*" >>
            /\ n > 8 => ResponseKey = masked
            /\ n > 0 /\ ResponseKey = key =>
                   \/ key = << "*", "*", "*", "*" >>
                   \/ n = 12 /\ \A k \in 5..8 : key[k] = "*"

\* A key of 9 characters was posted and is shown masked.
C20_Witness ==
    /\ response.route = "POST /api/config"
    /\ StoredKey = Key9
    /\ ResponseKey = << "s", "k", "_", "1", "*", "*", "*", "*", "3", "4", "5", "6" >>

\* C21: whenever control is back in the event loop, a non-empty queue implies
\* that the guard is set, and the guard is set exactly when one request is in
\* flight; a speak call arriving while a request is in flight leaves its item
\* in the queue of the running loop, with the guard set and no second loop.
C21_NoRequestStranded ==
    /\ [](ttsQueue # <<>> => isProcessingQueue)
    /\ [](isProcessingQueue <=>
              Cardinality({ id \in DOMAIN promises : InFlight(id) }) = 1)
    /\ [][ \A id \in 1..MaxRequests :
              (isProcessingQueue /\ SpeakStep /\ id = Len(promises) + 1) =>
                  /\ Queued(id)'
                  /\ isProcessingQueue'
                  /\ UNCHANGED loops
         ]_vars

\* The last item taken off the queue is being played, an item that arrived
\* meanwhile is waiting, and an earlier request has been spoken.
C21_Witness ==
    /\ Len(loops) = 1
    /\ loops[1].pc = "play"
    /\ Len(ttsQueue) = 1
    /\ isProcessingQueue
    /\ \E id \in DOMAIN promises : Resolved(id)

\* The requests whose playback ran to its end.
FullyPlayed ==
    { id \in DOMAIN promises : Resolved(id) \/ RejectedBecause(id, WriteError) }

\* C22: tts-complete.json is written only for an item whose synthesis and
\* playback both succeeded: a step in which a request fails in the gateway
\* call or in playback leaves the file as it was, the file changes only when
\* it is written, and every write is for a different request that was played
\* to its end, so there are never more writes than fully played utterances.
C22_SignalOnlyAfterPlayback ==
    /\ [](/\ Len(completionWrites) <= Cardinality(FullyPlayed)
          /\ \A k \in DOMAIN completionWrites :
                /\ completionWrites[k].id \in FullyPlayed
                /\ Occurrences(playCalls, completionWrites[k].id) = 1
                /\ Occurrences(completionWrites, completionWrites[k].id) = 1
          /\ completionFile.exists <=> completionWrites # <<>>)
    /\ [][ \A id \in 1..MaxRequests :
              ( /\ ~Settled(id)
                /\ \/ RejectedBecause(id, GatewayError)'
                   \/ RejectedBecause(id, PlaybackError)' )
              => UNCHANGED << completionFile, completionWrites >>
         ]_vars
    /\ [][ completionFile' # completionFile =>
              Len(completionWrites') = Len(completionWrites) + 1 ]_vars

\* One request failed in the gateway call, one in playback, and one was
\* played: the file has been written once.
C22_Witness ==
    /\ Len(completionWrites) = 1
    /\ completionFile.exists
    /\ \E b, c \in DOMAIN promises :
          /\ RejectedBecause(b, GatewayError)
          /\ RejectedBecause(c, PlaybackError)

\* C23: the running coordinator keeps the configuration it computed at
\* startup whatever is saved to config.json afterwards: config never changes,
\* every gateway call carries the voice id, model and voice settings of that
\* snapshot, and listen is gated by the snapshot's autoListen.
C23_StartupSnapshot ==
    /\ ConfigIsEffective
    /\ [][ UNCHANGED config ]_vars
    /\ [](Len(convertOptions) = Len(convertCalls))
    /\ [](\A k \in DOMAIN convertOptions :
            /\ convertOptions[k].text = convertCalls[k].text
            /\ convertOptions[k].voiceId = config.voiceId
            /\ convertOptions[k].modelId = config.model
            /\ convertOptions[k].voiceSettings = config.voiceSettings)
    /\ [][ ListenStep =>
              IF config.autoListen
              THEN listenResult' \in { ListeningResult,
                                       ListenFailedResult(WriteError) }
              ELSE listenResult' = DisabledResult /\ UNCHANGED listenFile
         ]_vars

\* config.json now says the opposite of the snapshot about auto-listen and
\* names another voice and model, and listen and the gateway have been called.
C23_Witness ==
    /\ Serving
    /\ loadConfig(configFile).autoListen # config.autoListen
    /\ loadConfig(configFile).voiceId # config.voiceId
    /\ loadConfig(configFile).model # config.model
    /\ loadConfig(configFile).voiceSettings # config.voiceSettings
    /\ listenResult # NoResult
    /\ Len(convertOptions) >= 2

\* The settings that are objects of their own.
NestedSettings == { "voiceSettings", "autoSubmit", "wisprLoop" }

\* loadConfig() returned before when update was saved and returns after now:
\* what the update names has the update's value, everything else, the fields
\* of a nested setting the update leaves out included, its value of before.
SavedOver(before, update, after) ==
    \A k \in DOMAIN DEFAULT_CONFIG :
        IF k \in NestedSettings
        THEN \A f \in DOMAIN DEFAULT_CONFIG[k] :
                after[k][f] = IF k \in DOMAIN update /\ f \in DOMAIN update[k]
                              THEN update[k][f]
                              ELSE before[k][f]
        ELSE after[k] = IF k \in DOMAIN update THEN update[k] ELSE before[k]

\* C24: after saveConfig(update), loadConfig() returns the update's values for
\* the settings the update names and the previously persisted values for all
\* the others, the fields a partial nested update leaves out included.
C24_SaveThenLoad ==
    [][ \A b \in DOMAIN Bodies :
           LET update == Updates(Bodies[b])
           IN  ( /\ response'.route = "POST /api/config"
                 /\ configFile' = Stringify(saveConfig(configFile, update)) )
               => SavedOver(loadConfig(configFile), update,
                            loadConfig(configFile'))
      ]_vars

====
